---- MODULE Spec2Model ----
(***************************************************************************)
(* Client side of polyester/image.py: Mount.start (content-addressed file  *)
(* synchronisation over two gRPC streams), Layer.start and Image.start     *)
(* (memoised realisation of a build graph) and Image.join (status polling).*)
(*                                                                         *)
(* Coroutines are modelled with an explicit call stack per task.  A task   *)
(* runs without interleaving between two awaits of an RPC (asyncio runs a  *)
(* callback to its next suspension point); `running` names the task that   *)
(* holds the event loop, NoTask when every task is suspended or idle.      *)
(***************************************************************************)
EXTENDS Integers, Sequences, FiniteSets, TLC

\* ------------------------------------------------------------- bounds
MaxFiles == 2          \* files in the local directory
MaxCalls == 2          \* top-level calls one task makes
MaxLayers == 3         \* Layer instances of a build graph
MaxOverlapCalls == 1   \* top-level calls of each of two overlapping callers
MaxPolls == 3          \* ImageJoin responses the remote side gives to one join
MaxAttempts == 2       \* attempts the retry wrapper makes for one request
MaxImages == 4         \* Image instances the builders construct

\* ------------------------------------------------------------- values
None == -1             \* Python None (an unset mount_id / layer_id / image_id)
EmptyId == 0           \* the empty identifier, falsy like None
NoTask == 0
Tasks == {1, 2}
Files == 1..MaxFiles                \* the .py files the directory may hold
OtherFile == MaxFiles + 1           \* a file of the directory that is no .py file
Contents == {<<1>>, <<1, 2>>}      \* byte strings a file may hold
Mounts == {1}

\* `if self.mount_id:` tests truthiness, not `is not None`
Truthy(x) == x # None /\ x # EmptyId

\* hashlib.sha256(data).hexdigest(): injective on the byte string
get_sha256_hex(data) == <<"sha256", data>>

local_dir == "."
remote_dir == "/root"
\* os.path.join(root, name) for a file of the walked directory
LocalFilename(f) == <<local_dir, f>>
\* os.path.relpath(filename, local_dir)
RelFilename(filename) == filename[2]
\* os.path.join(self.remote_dir, rel_filename)
RemoteFilename(rel) == <<remote_dir, rel>>

VARIABLES
  fs,            \* the local directory: file -> bytes, for the files present
  mount_id,      \* Mount.mount_id
  hashes,        \* Mount._hashes: local filename -> digest
  remote_to_local_filename,   \* Mount._remote_to_local_filename
  stack,         \* per task: the frames of the coroutines it is inside
  running,       \* the task holding the event loop, or NoTask
  result,        \* per task: how its last top-level call ended
  ncalls,        \* per task: top-level calls begun
  mc,            \* per task: the streams of its current Mount.start
  sent,          \* the Mount*, LayerCreate and ImageCreate RPCs issued, in order
  next_id,       \* the remote side's identifier counter
  layers,        \* the Layer instances: tag, base_layers, commands, layer_id
  images,        \* the Image instances: layer, mounts, image_id
  jc             \* per task: the requests and responses of its current Image.join

vars == <<fs, mount_id, hashes, remote_to_local_filename,
          stack, running, result, ncalls, mc, sent, next_id, layers, images, jc>>

\* ------------------------------------------------------------- helpers
Range(s) == {s[i] : i \in 1..Len(s)}
IsPrefix(s, t) == Len(s) <= Len(t) /\ SubSeq(t, 1, Len(s)) = s
Top(t) == stack[t][Len(stack[t])]
InFrame(t, kind, pc) ==
  /\ stack[t] # <<>>
  /\ Top(t).kind = kind
  /\ Top(t).pc = pc
Frame(kind, obj) ==
  [kind |-> kind, obj |-> obj, pc |-> "check", i |-> 1, acc |-> <<>>, id |-> None]
WithTop(st, f) == [st EXCEPT ![Len(st)] = f]

\* index of the last entry of `sent` that task t issued for rpc
LastSent(t, rpc) ==
  LET S == {i \in 1..Len(sent) : sent[i].task = t /\ sent[i].rpc = rpc}
  IN  CHOOSE i \in S : \A j \in S : j <= i
Issue(t, rpc, obj, req) ==
  Append(sent, [rpc |-> rpc, task |-> t, obj |-> obj, req |-> req,
                status |-> "pending", resp |-> None])
Settle(log, t, rpc, status, resp) ==
  LET S == {i \in 1..Len(log) : log[i].task = t /\ log[i].rpc = rpc}
      k == CHOOSE i \in S : \A j \in S : j <= i
  IN  [log EXCEPT ![k].status = status, ![k].resp = resp]

NoResult == [kind |-> "none", val |-> None, err |-> "", id |-> None,
             call |-> "", obj |-> None]
NoJoin == [reqs |-> <<>>, nerr |-> 0, attempt |-> 0, resps |-> <<>>, ret |-> <<>>]
NoStreams ==
  [mount_id |-> None, pending |-> {}, regReq |-> <<>>, regResp |-> <<>>,
   n_files |-> 0, upReq |-> <<>>, applied |-> <<>>]

\* ------------------------------------------------------------- return / raise
\* the value a finished callee hands to the frame that awaited it
Deliver(frame, v) ==
  CASE frame.kind = "layer" ->
         [frame EXCEPT !.acc = Append(@, v), !.i = @ + 1]
    [] frame.kind = "image" /\ frame.pc = "layer" ->
         [frame EXCEPT !.pc = "mounts", !.i = 1, !.id = v]
    [] frame.kind = "image" /\ frame.pc = "mounts" ->
         [frame EXCEPT !.acc = Append(@, v), !.i = @ + 1]
    [] OTHER -> frame

\* `return v` of the top frame of task t
Return(t, v) ==
  LET rest == SubSeq(stack[t], 1, Len(stack[t]) - 1)
  IN  /\ stack' = [stack EXCEPT ![t] =
                     IF rest = <<>> THEN <<>>
                     ELSE WithTop(rest, Deliver(rest[Len(rest)], v))]
      /\ result' = [result EXCEPT ![t] =
                     IF rest = <<>>
                     THEN [kind |-> "ok", val |-> v, err |-> "", id |-> Top(t).id,
                           call |-> stack[t][1].kind, obj |-> stack[t][1].obj]
                     ELSE @]
      /\ running' = IF rest = <<>> THEN NoTask ELSE t

\* an exception: no frame of this code catches it, the whole call aborts
Raise(t, err) ==
  /\ stack' = [stack EXCEPT ![t] = <<>>]
  /\ result' = [result EXCEPT ![t] =
                  [kind |-> "err", val |-> None, err |-> err, id |-> Top(t).id,
                   call |-> stack[t][1].kind, obj |-> stack[t][1].obj]]
  /\ running' = NoTask

\* ------------------------------------------------------------- Mount.start
\* line 78: `if self.mount_id:`
MountMemoNever(m) == FALSE
MountMemo(m) == Truthy(mount_id[m])

\* lines 78-82: the memo test, else MountCreate is sent and awaited
MountStartCheck(t) ==
  /\ running = t
  /\ InFrame(t, "mount", "check")
  /\ LET m == Top(t).obj IN
       IF MountMemo(m)
       THEN /\ Return(t, mount_id[m])
            /\ UNCHANGED sent
       ELSE /\ sent' = Issue(t, "MountCreate", m, [client_id |-> "client"])
            /\ stack' = [stack EXCEPT ![t] = WithTop(@, [Top(t) EXCEPT !.pc = "create"])]
            /\ running' = NoTask
            /\ UNCHANGED result
  /\ UNCHANGED <<layers, images, jc, fs, mount_id, hashes, remote_to_local_filename,
                 ncalls, mc, next_id>>

\* line 99: the predicate of the default mount accepts the .py files
condition(f) == f \in Files

\* get_files, lines 26-31: one hashing future per file the predicate accepts
WalkedFiles == {LocalFilename(f) : f \in {g \in DOMAIN fs : condition(g)}}

\* line 83: the new id is kept in a local until MountDone has answered
MountIdAfterCreateEager(m, id) == [mount_id EXCEPT ![m] = id]
MountIdAfterCreate(m, id) == mount_id

\* lines 82-86: MountCreate answers; MountUploadFile is opened on the upload
\* generator, which opens MountRegisterFile on the register generator, which
\* walks the directory and submits the hashing futures
MountCreateRespond(t) ==
  /\ running = NoTask
  /\ InFrame(t, "mount", "create")
  /\ LET m == Top(t).obj
         id == next_id
         log1 == Settle(sent, t, "MountCreate", "ok", id)
         log2 == Append(log1, [rpc |-> "MountUploadFile", task |-> t, obj |-> m,
                               req |-> [mount_id |-> id], status |-> "pending",
                               resp |-> None])
     IN  /\ next_id' = next_id + 1
         /\ sent' = Append(log2, [rpc |-> "MountRegisterFile", task |-> t, obj |-> m,
                                  req |-> [mount_id |-> id], status |-> "pending",
                                  resp |-> None])
         /\ stack' = [stack EXCEPT ![t] =
                        WithTop(@, [Top(t) EXCEPT !.pc = "upload", !.id = id])]
         /\ mc' = [mc EXCEPT ![t] =
                     [NoStreams EXCEPT !.mount_id = id, !.pending = WalkedFiles]]
         /\ mount_id' = MountIdAfterCreate(m, id)
  /\ UNCHANGED <<layers, images, jc, fs, hashes, remote_to_local_filename,
                 running, result, ncalls>>

MountCreateFail(t) ==
  /\ running = NoTask
  /\ InFrame(t, "mount", "create")
  /\ sent' = Settle(sent, t, "MountCreate", "failed", None)
  /\ Raise(t, "MountCreate")
  /\ UNCHANGED <<layers, images, jc, fs, mount_id, hashes, remote_to_local_filename,
                 ncalls, mc, next_id>>

\* ------------------------------------------------------------- the two streams
\* line 61: the decision to upload
NeedsUploadAlways(response) == TRUE
NeedsUpload(response) == ~response.exists

\* line 62: the local file a registration response is about
LocalOfByWalkOrder(m, response, pos) ==
  LET walked == {f \in Files : LocalFilename(f) \in DOMAIN hashes[m]}
      below(f) == Cardinality({g \in walked : g < f})
  IN  LocalFilename(CHOOSE f \in walked : below(f) = pos - 1)
LocalOf(m, response, pos) == remote_to_local_filename[m][response.filename]

\* line 67: the upload message (`file` is not on the wire: it records whose
\* bytes were read)
UploadRequestRehashed(m, filename, data, id) ==
  [data |-> data, sha256_hex |-> get_sha256_hex(data), size |-> Len(data),
   mount_id |-> id, file |-> filename]
UploadRequest(m, filename, data, id) ==
  [data |-> data, sha256_hex |-> hashes[m][filename], size |-> Len(data),
   mount_id |-> id, file |-> filename]

\* line 52: the registration message (`file` is not on the wire)
RegisterRequest(filename, sha256_hex, id) ==
  [filename |-> RemoteFilename(RelFilename(filename)), sha256_hex |-> sha256_hex,
   mount_id |-> id, file |-> filename]

\* lines 49-54: the register generator yields the request of a hashed file
RegisteredAndUploaded(c, request) ==
  [c EXCEPT !.pending = @ \ {request.file},
            !.regReq = Append(@, request),
            !.upReq = Append(@, [data |-> <<>>, sha256_hex |-> request.sha256_hex,
                                 size |-> 0, mount_id |-> request.mount_id,
                                 file |-> request.file])]
Registered(c, request) ==
  [c EXCEPT !.pending = @ \ {request.file}, !.regReq = Append(@, request)]

\* both streams of task t end with `status`
CloseStreams(log, t, status) ==
  Settle(Settle(log, t, "MountRegisterFile", status, None),
         t, "MountUploadFile", status, None)

\* lines 33-35 and 49-54: a hashing future completes (in any order);
\* get_files yields it and the register generator records and sends it
HashDone(t, filename) ==
  /\ running = NoTask
  /\ InFrame(t, "mount", "upload")
  /\ filename \in mc[t].pending
  /\ LET m == Top(t).obj
         sha256_hex == get_sha256_hex(fs[filename[2]])
         request == RegisterRequest(filename, sha256_hex, Top(t).id)
     IN  /\ remote_to_local_filename' =
               [remote_to_local_filename EXCEPT
                  ![m] = (request.filename :> filename) @@ @]
         /\ hashes' = [hashes EXCEPT ![m] = (filename :> sha256_hex) @@ @]
         /\ mc' = [mc EXCEPT ![t] = Registered(@, request)]
  /\ UNCHANGED <<layers, images, jc, fs, mount_id, stack, running, result, ncalls,
                 sent, next_id>>

\* line 18: open() or read() fails in the hashing thread; `await fut` raises
\* inside the register generator and the call aborts
HashFail(t, filename) ==
  /\ running = NoTask
  /\ InFrame(t, "mount", "upload")
  /\ filename \in mc[t].pending
  /\ sent' = CloseStreams(sent, t, "failed")
  /\ Raise(t, "hash_read")
  /\ UNCHANGED <<layers, images, jc, fs, mount_id, hashes, remote_to_local_filename,
                 ncalls, mc, next_id>>

\* the remote side answers the next registration request, in request order,
\* echoing its filename with an existence flag
RegisterRespond(t, exists) ==
  /\ running = NoTask
  /\ InFrame(t, "mount", "upload")
  /\ Len(mc[t].regResp) < Len(mc[t].regReq)
  /\ LET request == mc[t].regReq[Len(mc[t].regResp) + 1]
     IN  mc' = [mc EXCEPT ![t].regResp =
                  Append(@, [filename |-> request.filename, exists |-> exists])]
  /\ UNCHANGED <<layers, images, jc, fs, mount_id, hashes, remote_to_local_filename,
                 stack, running, result, ncalls, sent, next_id>>

\* the MountRegisterFile stream fails: the `async for` of line 59 raises
RegisterFail(t) ==
  /\ running = NoTask
  /\ InFrame(t, "mount", "upload")
  /\ sent' = Settle(Settle(sent, t, "MountRegisterFile", "failed", None),
                    t, "MountUploadFile", "failed", None)
  /\ Raise(t, "MountRegisterFile")
  /\ UNCHANGED <<layers, images, jc, fs, mount_id, hashes, remote_to_local_filename,
                 ncalls, mc, next_id>>

\* lines 59-68: the upload generator takes the next response and, for a
\* missing file, reads it and sends its bytes
ConsumeResponse(t) ==
  /\ running = NoTask
  /\ InFrame(t, "mount", "upload")
  /\ mc[t].n_files < Len(mc[t].regResp)
  /\ LET m == Top(t).obj
         pos == mc[t].n_files + 1
         response == mc[t].regResp[pos]
     IN  IF NeedsUpload(response)
         THEN LET filename == LocalOf(m, response, pos)
                  data == fs[filename[2]]
              IN  mc' = [mc EXCEPT
                    ![t].n_files = pos,
                    ![t].applied = Append(@, [pos |-> pos, file |-> filename]),
                    ![t].upReq = Append(@, UploadRequest(m, filename, data, Top(t).id))]
         ELSE mc' = [mc EXCEPT ![t].n_files = pos]
  /\ UNCHANGED <<layers, images, jc, fs, mount_id, hashes, remote_to_local_filename,
                 stack, running, result, ncalls, sent, next_id>>

\* line 63: the file to upload cannot be read
UploadReadFail(t) ==
  /\ running = NoTask
  /\ InFrame(t, "mount", "upload")
  /\ mc[t].n_files < Len(mc[t].regResp)
  /\ NeedsUpload(mc[t].regResp[mc[t].n_files + 1])
  /\ mc' = [mc EXCEPT ![t].n_files = @ + 1]
  /\ sent' = CloseStreams(sent, t, "failed")
  /\ Raise(t, "upload_read")
  /\ UNCHANGED <<layers, images, jc, fs, mount_id, hashes, remote_to_local_filename,
                 ncalls, next_id>>

\* every file was registered, answered and handled: both generators end, the
\* remote side acknowledges MountUploadFile, and lines 88-89 send MountDone
UploadAckEarly(t) ==
  /\ running = NoTask
  /\ InFrame(t, "mount", "upload")
  /\ sent' = Append(CloseStreams(sent, t, "ok"),
                    [rpc |-> "MountDone", task |-> t, obj |-> Top(t).obj,
                     req |-> [mount_id |-> Top(t).id], status |-> "pending",
                     resp |-> None])
  /\ stack' = [stack EXCEPT ![t] = WithTop(@, [Top(t) EXCEPT !.pc = "done"])]
  /\ UNCHANGED <<layers, images, jc, fs, mount_id, hashes, remote_to_local_filename,
                 running, result, ncalls, mc, next_id>>
UploadAck(t) ==
  /\ running = NoTask
  /\ InFrame(t, "mount", "upload")
  /\ mc[t].pending = {}
  /\ Len(mc[t].regResp) = Len(mc[t].regReq)
  /\ mc[t].n_files = Len(mc[t].regResp)
  /\ sent' = Append(CloseStreams(sent, t, "ok"),
                    [rpc |-> "MountDone", task |-> t, obj |-> Top(t).obj,
                     req |-> [mount_id |-> Top(t).id], status |-> "pending",
                     resp |-> None])
  /\ stack' = [stack EXCEPT ![t] = WithTop(@, [Top(t) EXCEPT !.pc = "done"])]
  /\ UNCHANGED <<layers, images, jc, fs, mount_id, hashes, remote_to_local_filename,
                 running, result, ncalls, mc, next_id>>

\* the MountUploadFile stream fails at any moment of the upload phase
UploadFail(t) ==
  /\ running = NoTask
  /\ InFrame(t, "mount", "upload")
  /\ sent' = Settle(Settle(sent, t, "MountRegisterFile", "failed", None),
                    t, "MountUploadFile", "failed", None)
  /\ Raise(t, "MountUploadFile")
  /\ UNCHANGED <<layers, images, jc, fs, mount_id, hashes, remote_to_local_filename,
                 ncalls, mc, next_id>>

\* lines 89-92: MountDone answers; the id is cached and returned
MountDoneRespond(t) ==
  /\ running = NoTask
  /\ InFrame(t, "mount", "done")
  /\ sent' = Settle(sent, t, "MountDone", "ok", None)
  /\ mount_id' = [mount_id EXCEPT ![Top(t).obj] = Top(t).id]
  /\ Return(t, Top(t).id)
  /\ UNCHANGED <<layers, images, jc, fs, hashes, remote_to_local_filename, ncalls, mc,
                 next_id>>

MountDoneFail(t) ==
  /\ running = NoTask
  /\ InFrame(t, "mount", "done")
  /\ sent' = Settle(sent, t, "MountDone", "failed", None)
  /\ Raise(t, "MountDone")
  /\ UNCHANGED <<layers, images, jc, fs, mount_id, hashes, remote_to_local_filename,
                 ncalls, mc, next_id>>

\* ------------------------------------------------------------- environment
\* another process rewrites a file, with other bytes than those hashed, after
\* a Mount.start has hashed it and before it has handled the registration
\* response (a write at any other moment is the same as a different content
\* at the start)
FileWrite(f, data) ==
  /\ running = NoTask
  /\ f \in DOMAIN fs
  /\ fs[f] # data
  /\ \E t \in Tasks :
       /\ InFrame(t, "mount", "upload")
       /\ \E k \in (mc[t].n_files + 1)..Len(mc[t].regReq) :
            /\ mc[t].regReq[k].file = LocalFilename(f)
            /\ mc[t].regReq[k].sha256_hex # get_sha256_hex(data)
  /\ fs' = [fs EXCEPT ![f] = data]
  /\ UNCHANGED <<layers, images, jc, mount_id, hashes, remote_to_local_filename,
                 stack, running, result, ncalls, mc, sent, next_id>>

\* a caller awaits mount.start(client)
CallMountStart(t, m) ==
  /\ running = NoTask
  /\ stack[t] = <<>>
  /\ ncalls[t] < MaxCalls
  /\ ncalls' = [ncalls EXCEPT ![t] = @ + 1]
  /\ stack' = [stack EXCEPT ![t] = <<Frame("mount", m)>>]
  /\ result' = [result EXCEPT ![t] = NoResult]
  /\ mc' = [mc EXCEPT ![t] = NoStreams]
  /\ running' = t
  /\ UNCHANGED <<layers, images, jc, fs, mount_id, hashes, remote_to_local_filename,
                 sent, next_id>>

\* ------------------------------------------------------------- Mount alone
InitObjects ==
  /\ mount_id = [m \in Mounts |-> None]
  /\ hashes = [m \in Mounts |-> <<>>]
  /\ remote_to_local_filename = [m \in Mounts |-> <<>>]
  /\ stack = [t \in Tasks |-> <<>>]
  /\ running = NoTask
  /\ result = [t \in Tasks |-> NoResult]
  /\ ncalls = [t \in Tasks |-> 0]
  /\ mc = [t \in Tasks |-> NoStreams]
  /\ sent = <<>>
  /\ next_id = 1
  /\ jc = [t \in Tasks |-> NoJoin]

\* one Mount, never started, over any directory content
InitMount ==
  /\ \E present \in SUBSET Files :
       \E py \in [present -> Contents] : fs = py @@ (OtherFile :> <<1>>)
  /\ layers = <<>>
  /\ images = <<>>
  /\ InitObjects

MountSteps(t) ==
  \/ MountStartCheck(t)
  \/ MountCreateRespond(t)
  \/ MountCreateFail(t)
  \/ \E f \in Files : HashDone(t, LocalFilename(f))
  \/ \E f \in Files : HashFail(t, LocalFilename(f))
  \/ \E exists \in BOOLEAN : RegisterRespond(t, exists)
  \/ RegisterFail(t)
  \/ ConsumeResponse(t)
  \/ UploadReadFail(t)
  \/ UploadAck(t)
  \/ UploadFail(t)
  \/ MountDoneRespond(t)
  \/ MountDoneFail(t)

\* calls to start on one Mount, one after another
NextMount ==
  \/ \E m \in Mounts : CallMountStart(1, m)
  \/ MountSteps(1)
  \/ \E f \in Files, data \in Contents : FileWrite(f, data)

SpecMount == InitMount /\ [][NextMount]_vars

\* ------------------------------------------------------------- Layer.start
\* line 113: `if self.layer_id is not None:`
LayerMemoNever(l) == FALSE
LayerMemo(l) == layers[l].layer_id # None

\* lines 113-116: the memo test, else the loop over base_layers begins
LayerStartCheck(t) ==
  /\ running = t
  /\ InFrame(t, "layer", "check")
  /\ IF LayerMemo(Top(t).obj)
     THEN Return(t, layers[Top(t).obj].layer_id)
     ELSE /\ stack' = [stack EXCEPT ![t] = WithTop(@, [Top(t) EXCEPT !.pc = "loop"])]
          /\ UNCHANGED <<running, result>>
  /\ UNCHANGED <<layers, images, jc, fs, mount_id, hashes,
                 remote_to_local_filename, ncalls, mc, sent, next_id>>

\* lines 120-140: the request, from the ids the base layers returned
LayerCreateRequestLastId(l, base_ids) ==
  [client_id |-> "client",
   tag |-> layers[l].tag,
   base_layers |-> [k \in 1..Len(base_ids) |->
                      [docker_tag |-> layers[l].base_layers[k][1],
                       layer_id |-> base_ids[Len(base_ids)]]],
   dockerfile_commands |-> layers[l].dockerfile_commands,
   context_files |-> layers[l].context_files]
LayerCreateRequest(l, base_ids) ==
  [client_id |-> "client",
   tag |-> layers[l].tag,
   base_layers |-> [k \in 1..Len(base_ids) |->
                      [docker_tag |-> layers[l].base_layers[k][1],
                       layer_id |-> base_ids[k]]],
   dockerfile_commands |-> layers[l].dockerfile_commands,
   context_files |-> layers[l].context_files]

\* lines 117-141: start the next base layer, or send LayerCreate and await
LayerStartLoop(t) ==
  /\ running = t
  /\ InFrame(t, "layer", "loop")
  /\ LET l == Top(t).obj IN
       IF Top(t).i <= Len(layers[l].base_layers)
       THEN /\ stack' = [stack EXCEPT ![t] =
                           Append(@, Frame("layer", layers[l].base_layers[Top(t).i][2]))]
            /\ UNCHANGED <<running, sent>>
       ELSE /\ sent' = Issue(t, "LayerCreate", l, LayerCreateRequest(l, Top(t).acc))
            /\ stack' = [stack EXCEPT ![t] = WithTop(@, [Top(t) EXCEPT !.pc = "create"])]
            /\ running' = NoTask
  /\ UNCHANGED <<layers, images, jc, fs, mount_id, hashes,
                 remote_to_local_filename, result, ncalls, mc, next_id>>

\* lines 141-143: LayerCreate answers; the id is cached and returned
LayerCreateRespond(t) ==
  /\ running = NoTask
  /\ InFrame(t, "layer", "create")
  /\ sent' = Settle(sent, t, "LayerCreate", "ok", next_id)
  /\ layers' = [layers EXCEPT ![Top(t).obj].layer_id = next_id]
  /\ next_id' = next_id + 1
  /\ Return(t, next_id)
  /\ UNCHANGED <<images, jc, fs, mount_id, hashes,
                 remote_to_local_filename, ncalls, mc>>

LayerCreateFail(t) ==
  /\ running = NoTask
  /\ InFrame(t, "layer", "create")
  /\ sent' = Settle(sent, t, "LayerCreate", "failed", None)
  /\ Raise(t, "LayerCreate")
  /\ UNCHANGED <<layers, images, jc, fs, mount_id, hashes,
                 remote_to_local_filename, ncalls, mc, next_id>>

\* a caller awaits layer.start(client)
CallLayerStart(t, l) ==
  /\ running = NoTask
  /\ stack[t] = <<>>
  /\ ncalls[t] < MaxCalls
  /\ ncalls' = [ncalls EXCEPT ![t] = @ + 1]
  /\ stack' = [stack EXCEPT ![t] = <<Frame("layer", l)>>]
  /\ result' = [result EXCEPT ![t] = NoResult]
  /\ running' = t
  /\ UNCHANGED <<layers, images, jc, fs, mount_id, hashes,
                 remote_to_local_filename, mc, sent, next_id>>

LayerSteps(t) ==
  \/ LayerStartCheck(t)
  \/ LayerStartLoop(t)
  \/ LayerCreateRespond(t)
  \/ LayerCreateFail(t)

\* ------------------------------------------------------------- Layer graphs
Layers == 1..MaxLayers
\* the names add_python_packages gives its base layers (lines 199-202)
BaseNames == <<"base", "builder">>
\* Layer.__init__ of a node whose base layers are the instances `bases`
NewLayer(bases) ==
  [layer_id |-> None,
   tag |-> IF bases = <<>> THEN "python-slim-buster-base" ELSE "",
   base_layers |-> [k \in 1..Len(bases) |-> <<BaseNames[k], bases[k]>>],
   dockerfile_commands |-> IF bases = <<>> THEN <<>> ELSE <<"FROM base", "RUN build">>,
   context_files |-> <<>>]

\* every graph of MaxLayers instances, each built from instances made before it
InitLayer ==
  /\ \E bl \in [Layers -> UNION {[1..n -> Layers] : n \in 0..Len(BaseNames)}] :
       /\ \A l \in Layers : \A k \in 1..Len(bl[l]) : bl[l][k] < l
       /\ layers = [l \in Layers |-> NewLayer(bl[l])]
  /\ images = <<>>
  /\ fs = <<>>
  /\ InitObjects

\* calls to start on Layer instances, one after another
NextLayer ==
  \/ \E l \in Layers : CallLayerStart(1, l)
  \/ LayerSteps(1)

SpecLayer == InitLayer /\ [][NextLayer]_vars

\* ------------------------------------------------------------- Image.start
\* line 155: `if self.image_id is not None:`
ImageMemoNever(i) == FALSE
ImageMemo(i) == images[i].image_id # None

\* lines 155-158: the memo test, else the layer is started
ImageStartCheck(t) ==
  /\ running = t
  /\ InFrame(t, "image", "check")
  /\ IF ImageMemo(Top(t).obj)
     THEN Return(t, images[Top(t).obj].image_id)
     ELSE /\ stack' = [stack EXCEPT ![t] =
                         Append(WithTop(@, [Top(t) EXCEPT !.pc = "layer"]),
                                Frame("layer", images[Top(t).obj].layer))]
          /\ UNCHANGED <<running, result>>
  /\ UNCHANGED <<layers, images, jc, fs, mount_id, hashes,
                 remote_to_local_filename, ncalls, mc, sent, next_id>>

\* line 163: the request reads self.layer.layer_id, not the value returned
\* at line 158
ImageCreateRequest(i, mount_ids) ==
  [client_id |-> "client",
   layer_id |-> layers[images[i].layer].layer_id,
   mount_ids |-> mount_ids]

\* lines 159-165: start the next mount, or send ImageCreate and await
ImageStartMounts(t) ==
  /\ running = t
  /\ InFrame(t, "image", "mounts")
  /\ LET i == Top(t).obj IN
       IF Top(t).i <= Len(images[i].mounts)
       THEN /\ stack' = [stack EXCEPT ![t] =
                           Append(@, Frame("mount", images[i].mounts[Top(t).i]))]
            /\ mc' = [mc EXCEPT ![t] = NoStreams]
            /\ UNCHANGED <<running, sent>>
       ELSE /\ sent' = Issue(t, "ImageCreate", i, ImageCreateRequest(i, Top(t).acc))
            /\ stack' = [stack EXCEPT ![t] = WithTop(@, [Top(t) EXCEPT !.pc = "create"])]
            /\ running' = NoTask
            /\ UNCHANGED mc
  /\ UNCHANGED <<layers, images, jc, fs, mount_id, hashes,
                 remote_to_local_filename, result, ncalls, next_id>>

\* lines 165-167: ImageCreate answers; the id is cached and returned
ImageCreateRespond(t) ==
  /\ running = NoTask
  /\ InFrame(t, "image", "create")
  /\ sent' = Settle(sent, t, "ImageCreate", "ok", next_id)
  /\ images' = [images EXCEPT ![Top(t).obj].image_id = next_id]
  /\ next_id' = next_id + 1
  /\ Return(t, next_id)
  /\ UNCHANGED <<layers, jc, fs, mount_id, hashes,
                 remote_to_local_filename, ncalls, mc>>

ImageCreateFail(t) ==
  /\ running = NoTask
  /\ InFrame(t, "image", "create")
  /\ sent' = Settle(sent, t, "ImageCreate", "failed", None)
  /\ Raise(t, "ImageCreate")
  /\ UNCHANGED <<layers, images, jc, fs, mount_id, hashes,
                 remote_to_local_filename, ncalls, mc, next_id>>

\* a caller awaits image.start(client)
BeginImageStart(t, i) ==
  /\ running = NoTask
  /\ stack[t] = <<>>
  /\ ncalls' = [ncalls EXCEPT ![t] = @ + 1]
  /\ stack' = [stack EXCEPT ![t] = <<Frame("image", i)>>]
  /\ result' = [result EXCEPT ![t] = NoResult]
  /\ running' = t
  /\ UNCHANGED <<layers, images, jc, fs, mount_id, hashes,
                 remote_to_local_filename, mc, sent, next_id>>

CallImageStart(t, i) ==
  /\ ncalls[t] < MaxOverlapCalls
  /\ BeginImageStart(t, i)

ImageSteps(t) ==
  \/ ImageStartCheck(t)
  \/ ImageStartMounts(t)
  \/ ImageCreateRespond(t)
  \/ ImageCreateFail(t)

\* ------------------------------------------------------------- overlapping calls
\* debian_slim.run_commands(...) (lines 194-195, 214-219): a base layer, a layer
\* built on it, and an image of that layer with the default mount over one file
InitOverlap ==
  /\ layers = <<NewLayer(<<>>), NewLayer(<<1>>)>>
  /\ images = <<[layer |-> 2, mounts |-> <<1>>, image_id |-> None]>>
  /\ fs = (1 :> <<1>>) @@ (OtherFile :> <<1>>)
  /\ InitObjects

\* a caller awaits layer.start(client) while other calls may be suspended
CallLayerStartOverlap(t, l) ==
  /\ ncalls[t] < MaxOverlapCalls
  /\ CallLayerStart(t, l)

\* two callers on one event loop: start calls on the same instances overlap
\* at the awaits
NextOverlap ==
  \E t \in Tasks :
    \/ \E i \in DOMAIN images : CallImageStart(t, i)
    \/ \E l \in DOMAIN layers : CallLayerStartOverlap(t, l)
    \/ ImageSteps(t)
    \/ LayerSteps(t)
    \/ MountSteps(t)

SpecOverlap == InitOverlap /\ [][NextOverlap]_vars

\* ------------------------------------------------------------- Image.join
\* GenericResult.Status: UNSPECIFIED is the zero value (falsy, "no status");
\* TIMEOUT stands for any value that is neither SUCCESS nor FAILURE
Statuses == {"UNSPECIFIED", "SUCCESS", "FAILURE", "TIMEOUT"}
Payloads == {41, 42}
\* line 181: the message of the exception raised for an unknown status
UnknownStatusMessage(status) == "Unknown status " \o status \o "!"
\* the diagnostic texts a FAILURE response may carry: any text the remote
\* side chooses
Exceptions == {"boom", "bang", UnknownStatusMessage("TIMEOUT")}
JoinResponse(status, data, exception) ==
  [status |-> status, data |-> data, exception |-> exception]
\* the ImageJoin responses the remote side may give
JoinResponses ==
  {JoinResponse("UNSPECIFIED", 0, ""), JoinResponse("UNSPECIFIED", 41, "boom"),
   JoinResponse("TIMEOUT", 0, "")}
  \cup {JoinResponse("SUCCESS", d, "") : d \in Payloads}
  \cup {JoinResponse("FAILURE", 0, e) : e \in Exceptions}

\* lines 174-181: what the loop does with a response
JoinOutcomeNoPending(response) ==
  CASE response.status = "FAILURE" -> "raise_failure"
    [] response.status = "SUCCESS" -> "return"
    [] OTHER -> "raise_unknown"
JoinOutcomeRetryFailure(response) ==
  CASE response.status \in {"UNSPECIFIED", "FAILURE"} -> "continue"
    [] response.status = "SUCCESS" -> "return"
    [] OTHER -> "raise_unknown"
JoinOutcomeEmptyReturns(response) ==
  CASE response.status \in {"UNSPECIFIED", "SUCCESS"} -> "return"
    [] response.status = "FAILURE" -> "raise_failure"
    [] OTHER -> "raise_unknown"
JoinOutcome(response) ==
  CASE response.status = "UNSPECIFIED" -> "continue"
    [] response.status = "FAILURE" -> "raise_failure"
    [] response.status = "SUCCESS" -> "return"
    [] OTHER -> "raise_unknown"

\* lines 172-173: one ImageJoin request
ImageJoinRequest(i) ==
  [image_id |-> images[i].image_id, timeout |-> "BLOCKING_REQUEST_TIMEOUT"]

\* lines 171-173: the head of the loop sends a request and awaits the answer
JoinSend(t) ==
  /\ running = t
  /\ InFrame(t, "join", "check")
  /\ jc' = [jc EXCEPT ![t].reqs = Append(@, ImageJoinRequest(Top(t).obj)),
                      ![t].attempt = 1]
  /\ stack' = [stack EXCEPT ![t] = WithTop(@, [Top(t) EXCEPT !.pc = "poll"])]
  /\ running' = NoTask
  /\ UNCHANGED <<layers, images, fs, mount_id, hashes,
                 remote_to_local_filename, result, ncalls, mc, sent, next_id>>

\* lines 173-181: a response arrives
JoinRespond(t, response) ==
  /\ running = NoTask
  /\ InFrame(t, "join", "poll")
  /\ Len(jc[t].resps) < MaxPolls
  /\ LET outcome == JoinOutcome(response) IN
       /\ jc' = [jc EXCEPT ![t].resps = Append(@, response),
                           ![t].ret = IF outcome = "return" THEN <<response>> ELSE @]
       /\ CASE outcome = "continue" ->
                 /\ stack' = [stack EXCEPT ![t] =
                                WithTop(@, [Top(t) EXCEPT !.pc = "check"])]
                 /\ running' = t
                 /\ UNCHANGED result
            [] outcome = "raise_failure" -> Raise(t, response.exception)
            [] outcome = "return" -> Return(t, None)
            [] OTHER -> Raise(t, UnknownStatusMessage(response.status))
  /\ UNCHANGED <<layers, images, fs, mount_id, hashes,
                 remote_to_local_filename, ncalls, mc, sent, next_id>>

\* the retry wrapper of line 173: a transport error is retried while the
\* attempt budget lasts
retry(attempt) == attempt < MaxAttempts

\* line 173: an attempt ends with a transport error or a timeout
JoinTransportError(t) ==
  /\ running = NoTask
  /\ InFrame(t, "join", "poll")
  /\ IF retry(jc[t].attempt)
     THEN /\ jc' = [jc EXCEPT ![t].reqs = Append(@, ImageJoinRequest(Top(t).obj)),
                              ![t].nerr = @ + 1,
                              ![t].attempt = @ + 1]
          /\ UNCHANGED <<stack, running, result>>
     ELSE /\ jc' = [jc EXCEPT ![t].nerr = @ + 1]
          /\ Raise(t, "transport")
  /\ UNCHANGED <<layers, images, fs, mount_id, hashes,
                 remote_to_local_filename, ncalls, mc, sent, next_id>>

\* a caller awaits image.join(client)
CallImageJoin(t, i) ==
  /\ running = NoTask
  /\ stack[t] = <<>>
  /\ ncalls[t] < MaxCalls
  /\ ncalls' = [ncalls EXCEPT ![t] = @ + 1]
  /\ stack' = [stack EXCEPT ![t] = <<Frame("join", i)>>]
  /\ result' = [result EXCEPT ![t] = NoResult]
  /\ jc' = [jc EXCEPT ![t] = NoJoin]
  /\ running' = t
  /\ UNCHANGED <<layers, images, fs, mount_id, hashes,
                 remote_to_local_filename, mc, sent, next_id>>

\* an Image of a base layer without mounts, before or after a successful start
InitJoin ==
  /\ \E started \in BOOLEAN :
       /\ layers = <<[NewLayer(<<>>) EXCEPT !.layer_id = IF started THEN 1 ELSE None]>>
       /\ images = <<[layer |-> 1, mounts |-> <<>>,
                      image_id |-> IF started THEN 2 ELSE None]>>
       /\ next_id = IF started THEN 3 ELSE 1
  /\ fs = <<>>
  /\ mount_id = [m \in Mounts |-> None]
  /\ hashes = [m \in Mounts |-> <<>>]
  /\ remote_to_local_filename = [m \in Mounts |-> <<>>]
  /\ stack = [t \in Tasks |-> <<>>]
  /\ running = NoTask
  /\ result = [t \in Tasks |-> NoResult]
  /\ ncalls = [t \in Tasks |-> 0]
  /\ mc = [t \in Tasks |-> NoStreams]
  /\ sent = <<>>
  /\ jc = [t \in Tasks |-> NoJoin]

\* calls to join on one Image, one after another
NextJoin ==
  \/ \E i \in DOMAIN images : CallImageJoin(1, i)
  \/ JoinSend(1)
  \/ \E response \in JoinResponses : JoinRespond(1, response)
  \/ JoinTransportError(1)

SpecJoin == InitJoin /\ [][NextJoin]_vars

\* the event loop runs a coroutine that is ready: after `continue` (and at
\* entry) the loop head sends its request; nothing obliges the remote side or
\* the transport to answer
SpecJoinLive == InitJoin /\ [][NextJoin]_vars /\ WF_vars(JoinSend(1))

\* ------------------------------------------------------------- Mount.start: properties
MountRpcNames == {"MountCreate", "MountRegisterFile", "MountUploadFile", "MountDone"}
IsMountRpc(e) == e.rpc \in MountRpcNames
MountRpcs(m) == SelectSeq(sent, LAMBDA e : IsMountRpc(e) /\ e.obj = m)
\* the ids that calls of start on m have returned after a synchronisation
ReturnedIds(m) ==
  {sent[i].req.mount_id : i \in {j \in 1..Len(sent) :
      sent[j].rpc = "MountDone" /\ sent[j].obj = m /\ sent[j].status = "ok"}}
InMountStart(st, m) == st # <<>> /\ st[1].kind = "mount" /\ st[1].obj = m
StreamMessages(c) == Len(c.regReq) + Len(c.upReq)
CountRpc(rpc) == Cardinality({i \in 1..Len(sent) : sent[i].rpc = rpc})

\* C1: once a call of Mount.start has returned a mount id, no step issues a
\* MountCreate, MountRegisterFile, MountUploadFile or MountDone RPC or a stream
\* message for that Mount, and every call that ends returns that same id.
C1_StartMemoized ==
  [][\A m \in Mounts : \A id \in ReturnedIds(m) :
       /\ MountRpcs(m)' = MountRpcs(m)
       /\ \A t \in Tasks :
            /\ InMountStart(stack'[t], m) => StreamMessages(mc'[t]) = 0
            /\ (InMountStart(stack[t], m) /\ stack'[t] = <<>>) =>
                 /\ result'[t].kind = "ok"
                 /\ result'[t].val = id
                 /\ StreamMessages(mc'[t]) = 0]_vars

\* a second call has returned the cached id after one synchronisation of a
\* non-empty file set
C1_Witness ==
  /\ ncalls[1] = 2
  /\ stack[1] = <<>>
  /\ result[1].kind = "ok"
  /\ result[1].val \in ReturnedIds(1)
  /\ CountRpc("MountCreate") = 1
  /\ CountRpc("MountDone") = 1
  /\ WalkedFiles # {}

\* C2: no upload message is sent for a file whose registration response
\* reports exists = true.
C2_NoUploadOfExisting ==
  \A t \in Tasks : \A k \in 1..Len(mc[t].regResp) :
    mc[t].regResp[k].exists =>
      \A j \in 1..Len(mc[t].upReq) :
        RemoteFilename(RelFilename(mc[t].upReq[j].file)) # mc[t].regResp[k].filename

\* a finished synchronisation of one present and one absent file, the present
\* one hashed last
C2_Witness ==
  /\ result[1].kind = "ok"
  /\ Len(mc[1].regResp) = 2
  /\ ~mc[1].regResp[1].exists
  /\ mc[1].regResp[2].exists
  /\ mc[1].n_files = 2
  /\ Len(mc[1].upReq) = 1

\* the answer of the MountCreate of task t's current call
CreatedId(t) == sent[LastSent(t, "MountCreate")].resp
UploadsOf(c, filename) == {j \in 1..Len(c.upReq) : c.upReq[j].file = filename}

\* C3: after a successful synchronisation, every file reported exists = false
\* has exactly one upload message, carrying the digest of its registration
\* request and the mount id MountCreate returned.
C3_OneUploadPerMissing ==
  \A t \in Tasks :
    (result[t].kind = "ok" /\ mc[t].mount_id # None) =>
      \A k \in 1..Len(mc[t].regResp) :
        ~mc[t].regResp[k].exists =>
          /\ Cardinality(UploadsOf(mc[t], mc[t].regReq[k].file)) = 1
          /\ \A j \in UploadsOf(mc[t], mc[t].regReq[k].file) :
               /\ mc[t].upReq[j].sha256_hex = mc[t].regReq[k].sha256_hex
               /\ mc[t].upReq[j].mount_id = CreatedId(t)
               /\ mc[t].upReq[j].mount_id = result[t].val

\* two missing files uploaded, one of them rewritten between hashing and upload
C3_Witness ==
  /\ result[1].kind = "ok"
  /\ Len(mc[1].upReq) = 2
  /\ \E j \in 1..2 : mc[1].upReq[j].sha256_hex # get_sha256_hex(mc[1].upReq[j].data)

\* C4 as stated: no upload message before every registration request of the
\* mount has been sent and every existence flag observed.
C4_UploadAfterAllRegistered ==
  \A t \in Tasks :
    mc[t].upReq # <<>> =>
      /\ mc[t].pending = {}
      /\ mc[t].n_files = Len(mc[t].regReq)

\* the files of the responses consumed so far that reported exists = false
MissingObserved(c) ==
  LET seen == [k \in 1..c.n_files |->
                 [file |-> c.regReq[k].file, exists |-> c.regResp[k].exists]]
      miss == SelectSeq(seen, LAMBDA p : ~p.exists)
  IN  [k \in 1..Len(miss) |-> miss[k].file]
UploadedFiles(c) == [j \in 1..Len(c.upReq) |-> c.upReq[j].file]

\* C4 amended: the upload messages follow the observed exists = false flags
\* one by one, each sent only once its own file's registration was sent and
\* its flag observed; at most the last observed flag has no upload yet.
C4_UploadFollowsOwnFlag ==
  \A t \in Tasks :
    /\ IsPrefix(UploadedFiles(mc[t]), MissingObserved(mc[t]))
    /\ Len(MissingObserved(mc[t])) <= Len(mc[t].upReq) + 1

\* an upload is on the wire while another file is not yet registered
C4_Witness ==
  /\ InFrame(1, "mount", "upload")
  /\ Len(mc[1].upReq) = 1
  /\ mc[1].pending # {}

MountDoneSent(id) ==
  {i \in 1..Len(sent) : sent[i].rpc = "MountDone" /\ sent[i].req.mount_id = id}

\* C6: a call that aborted in MountCreate, in either stream or on a local read
\* sent no MountDone for the id it obtained; mount_id is only ever the id of an
\* acknowledged MountDone; MountDone follows a completed upload stream.
C6_AbortLeavesUnset ==
  /\ \A t \in Tasks :
       (result[t].kind = "err" /\ result[t].err # "MountDone") =>
         MountDoneSent(result[t].id) = {}
  /\ \A t \in Tasks :
       result[t].kind = "err" => \A m \in Mounts : mount_id[m] # result[t].id \/ result[t].id = None
  /\ \A m \in Mounts : mount_id[m] # None => mount_id[m] \in ReturnedIds(m)
  /\ \A i \in 1..Len(sent) :
       sent[i].rpc = "MountDone" =>
         \E j \in 1..(i - 1) :
           /\ sent[j].rpc = "MountUploadFile"
           /\ sent[j].task = sent[i].task
           /\ sent[j].req.mount_id = sent[i].req.mount_id
           /\ sent[j].status = "ok"

\* the upload stream failed after a file was uploaded
C6_Witness ==
  /\ result[1].kind = "err"
  /\ result[1].err = "MountUploadFile"
  /\ result[1].id # None
  /\ mc[1].upReq # <<>>
  /\ mount_id[1] = None

\* ------------------------------------------------------------- Layer.start, Image.start: properties
Requests(rpc, obj) ==
  {i \in 1..Len(sent) : sent[i].rpc = rpc /\ sent[i].obj = obj}
\* the requests that did not fail: answered, or still awaited
LiveRequests(rpc, obj) == {i \in Requests(rpc, obj) : sent[i].status # "failed"}
AnsweredRequests(rpc, obj) == {i \in Requests(rpc, obj) : sent[i].status = "ok"}

\* the instances reachable from l through base_layers, l included
RECURSIVE Reach(_)
Reach(l) ==
  {l} \cup UNION {Reach(layers[l].base_layers[k][2]) :
                    k \in 1..Len(layers[l].base_layers)}

\* C7: with start calls made one after another, no Layer instance ever has a
\* second LayerCreate besides failed attempts, and once start has returned for
\* a node every instance reachable from it has exactly one answered
\* LayerCreate, whose id it caches - per instance, whatever its content.
C7_OneCreatePerInstance ==
  /\ \A l \in DOMAIN layers : Cardinality(LiveRequests("LayerCreate", l)) <= 1
  /\ \A t \in Tasks :
       (result[t].kind = "ok" /\ result[t].call = "layer") =>
         \A d \in Reach(result[t].obj) :
           /\ Cardinality(LiveRequests("LayerCreate", d)) = 1
           /\ \A i \in LiveRequests("LayerCreate", d) :
                /\ sent[i].status = "ok"
                /\ sent[i].resp = layers[d].layer_id

\* two parents built separately from the same child, with identical content:
\* both realised by two calls, three LayerCreate in all, equal requests for
\* the parents
C7_Witness ==
  /\ Len(layers) >= 3
  /\ layers[2].base_layers = <<<<"base", 1>>>>
  /\ layers[3].base_layers = <<<<"base", 1>>>>
  /\ ncalls[1] = 2
  /\ result[1].kind = "ok"
  /\ Len(sent) = 3
  /\ \A l \in 1..3 : Cardinality(AnsweredRequests("LayerCreate", l)) = 1
  /\ \E i \in Requests("LayerCreate", 2), j \in Requests("LayerCreate", 3) :
       sent[i].req = sent[j].req

\* C8: at most one LayerCreate (ImageCreate) request that did not fail is
\* issued per Layer (Image) instance, so layer_id (image_id) is assigned at
\* most once, also when start calls on the same instance overlap.
C8_RealizedOnce ==
  /\ \A l \in DOMAIN layers : Cardinality(LiveRequests("LayerCreate", l)) <= 1
  /\ \A i \in DOMAIN images : Cardinality(LiveRequests("ImageCreate", i)) <= 1

\* ------------------------------------------------------------- Image.join: properties
\* the responses of task t's join so far: k without status, then one with `status`
PendingThen(t, status) ==
  /\ jc[t].resps # <<>>
  /\ jc[t].resps[Len(jc[t].resps)].status = status
  /\ \A k \in 1..(Len(jc[t].resps) - 1) : jc[t].resps[k].status = "UNSPECIFIED"
LastResponse(t) == jc[t].resps[Len(jc[t].resps)]

\* C9: responses without status never end the join (only an exhausted retry
\* budget does); when k of them are followed by a SUCCESS response the join
\* has returned that response, after k+1 answered requests and no request
\* beyond them (transport retries aside).
C9_JoinReturnsSuccess ==
  \A t \in Tasks :
    /\ (jc[t].resps # <<>> /\ PendingThen(t, "UNSPECIFIED")) =>
         (stack[t] # <<>> \/ (result[t].kind = "err" /\ result[t].err = "transport"))
    /\ PendingThen(t, "SUCCESS") =>
         /\ stack[t] = <<>>
         /\ result[t].kind = "ok"
         /\ result[t].call = "join"
         /\ jc[t].ret = <<LastResponse(t)>>
         /\ Len(jc[t].reqs) = Len(jc[t].resps) + jc[t].nerr

\* [Pending, Pending, Success(payload = 42)] gives 42 after exactly 3 requests
C9_Witness ==
  /\ Len(jc[1].resps) = 3
  /\ PendingThen(1, "SUCCESS")
  /\ jc[1].ret # <<>>
  /\ jc[1].ret[1].data = 42
  /\ Len(jc[1].reqs) = 3
  /\ stack[1] = <<>>

\* C10: a FAILURE response ends the join with an error whose detail is the
\* exception string of that response; no request follows it.
C10_JoinFailsOnFailure ==
  \A t \in Tasks :
    PendingThen(t, "FAILURE") =>
      /\ stack[t] = <<>>
      /\ result[t].kind = "err"
      /\ result[t].call = "join"
      /\ result[t].err = LastResponse(t).exception
      /\ Len(jc[t].reqs) = Len(jc[t].resps) + jc[t].nerr

\* [Pending, Failure("boom")] fails with "boom" after 2 requests
C10_Witness ==
  /\ Len(jc[1].resps) = 2
  /\ PendingThen(1, "FAILURE")
  /\ result[1].err = "boom"
  /\ Len(jc[1].reqs) = 2
  /\ stack[1] = <<>>

\* C11: a response whose status is neither absent, SUCCESS nor FAILURE ends
\* the join at once with the unknown-status error and no further request, and
\* that outcome is one no FAILURE response produces.
C11_UnknownStatusDistinct ==
  \A t \in Tasks :
    PendingThen(t, "TIMEOUT") =>
      /\ stack[t] = <<>>
      /\ result[t].kind = "err"
      /\ result[t].call = "join"
      /\ result[t].err = UnknownStatusMessage("TIMEOUT")
      /\ Len(jc[t].reqs) = Len(jc[t].resps) + jc[t].nerr
      /\ \A r \in JoinResponses : r.status = "FAILURE" => r.exception # result[t].err

\* the states of a join: Polling while the coroutine is alive, terminal once
\* it has returned or raised
Polling(st) == st # <<>> /\ st[1].kind = "join"
JoinEnded(st, res) == st = <<>> /\ res.call = "join"

\* C12 as stated: a join that has ended was taken out of Polling by the status
\* field of a poll response.
C12_OnlyStatusLeavesPolling ==
  \A t \in Tasks :
    JoinEnded(stack[t], result[t]) =>
      /\ jc[t].resps # <<>>
      /\ LastResponse(t).status # "UNSPECIFIED"

\* C12 amended: Polling is initial; it is left only by a poll response with a
\* non-empty status, or by a transport error once the attempt budget of the
\* retry wrapper is used up; a response without status keeps the join
\* Polling; an ended join sends and receives nothing more.
C12_JoinStateMachine ==
  [][\A t \in Tasks :
       /\ (~Polling(stack[t]) /\ Polling(stack'[t])) => jc'[t] = NoJoin
       /\ (Polling(stack[t]) /\ Polling(stack'[t])) =>
            \/ jc'[t].resps = jc[t].resps
            \/ /\ Len(jc'[t].resps) = Len(jc[t].resps) + 1
               /\ jc'[t].resps = Append(jc[t].resps, LastResponse(t)')
               /\ LastResponse(t)'.status = "UNSPECIFIED"
       /\ (Polling(stack[t]) /\ ~Polling(stack'[t])) =>
            /\ JoinEnded(stack'[t], result'[t])
            /\ jc'[t].reqs = jc[t].reqs
            /\ \/ /\ Len(jc'[t].resps) = Len(jc[t].resps) + 1
                  /\ jc'[t].resps = Append(jc[t].resps, LastResponse(t)')
                  /\ LastResponse(t)'.status # "UNSPECIFIED"
                  /\ result'[t].kind = "ok" <=> LastResponse(t)'.status = "SUCCESS"
               \/ /\ jc'[t].resps = jc[t].resps
                  /\ jc[t].attempt = MaxAttempts
                  /\ result'[t].kind = "err"
                  /\ result'[t].err = "transport"
       /\ (JoinEnded(stack[t], result[t]) /\ stack'[t] = <<>>) =>
            /\ jc'[t] = jc[t]
            /\ result'[t] = result[t]]_vars

\* a join left Polling on a transport error after a response without status
C12_Witness ==
  /\ JoinEnded(stack[1], result[1])
  /\ result[1].err = "transport"
  /\ Len(jc[1].resps) = 1
  /\ jc[1].resps[1].status = "UNSPECIFIED"
  /\ jc[1].nerr = MaxAttempts

\* ------------------------------------------------------------- builders
\* line 96: the module-level Mount every DebianSlim is given
mount_py_in_workdir_into_root == 1
\* line 191: the version of the running interpreter
python_version == "3.9.1"
\* the arguments callers pass to add_python_packages and run_commands
PackageLists == {<<"numpy">>, <<"numpy", "scipy">>}
CommandLists == {<<"apt-get update">>, <<"make", "make install">>}

\* Layer.__init__, lines 104-109 (an absent tag is the empty string)
Layer(tag, base_layers, dockerfile_commands) ==
  [layer_id |-> None, tag |-> tag, base_layers |-> base_layers,
   dockerfile_commands |-> dockerfile_commands, context_files |-> <<>>]
\* Image.__init__, lines 148-151
Image(layer, mounts) == [layer |-> layer, mounts |-> mounts, image_id |-> None]
\* DebianSlim.__init__ with a layer given, line 195
DebianSlim(layer) == Image(layer, <<mount_py_in_workdir_into_root>>)

\* ' '.join(python_packages), line 205
RECURSIVE Join(_)
Join(words) ==
  IF Len(words) = 1 THEN words[1] ELSE words[1] \o " " \o Join(Tail(words))

\* lines 198-211: the layers after add_python_packages on image i; the builder
\* layer is constructed first, then the layer that names both bases
add_python_packages(i, python_packages) ==
  LET builder == Layer("python-" \o python_version \o "-slim-buster-builder", <<>>, <<>>)
      with_builder == Append(layers, builder)
  IN  Append(with_builder,
        Layer("",
              <<<<"base", images[i].layer>>, <<"builder", Len(with_builder)>>>>,
              <<"FROM builder as builder-vehicle",
                "RUN pip wheel " \o Join(python_packages) \o " -w /tmp/wheels",
                "FROM base",
                "COPY --from=builder-vehicle /tmp/wheels /tmp/wheels",
                "RUN pip install /tmp/wheels/*",
                "RUN rm -rf /tmp/wheels">>))

\* lines 215-218: the layers after run_commands on image i
run_commands_SameLayer(i, commands) ==
  [layers EXCEPT ![images[i].layer].dockerfile_commands =
     @ \o [k \in 1..Len(commands) |-> "RUN " \o commands[k]]]
run_commands(i, commands) ==
  Append(layers,
    Layer("", <<<<"base", images[i].layer>>>>,
          <<"FROM base">> \o [k \in 1..Len(commands) |-> "RUN " \o commands[k]]))

\* nothing but the instances changes when an object is constructed
BuilderFrame ==
  UNCHANGED <<fs, mount_id, hashes, remote_to_local_filename, stack, running,
              result, ncalls, mc, sent, next_id, jc>>

\* DebianSlim(), lines 189-195: a new base layer and an image of it
NewDebianSlim ==
  /\ running = NoTask
  /\ Len(images) < MaxImages
  /\ layers' = Append(layers,
                  Layer("python-" \o python_version \o "-slim-buster-base", <<>>, <<>>))
  /\ images' = Append(images, DebianSlim(Len(layers')))
  /\ BuilderFrame

\* image.add_python_packages(python_packages), lines 197-212
AddPythonPackages(i, python_packages) ==
  /\ running = NoTask
  /\ Len(images) < MaxImages
  /\ layers' = add_python_packages(i, python_packages)
  /\ images' = Append(images, DebianSlim(Len(layers')))
  /\ BuilderFrame

\* image.run_commands(commands), lines 214-219
RunCommands(i, commands) ==
  /\ running = NoTask
  /\ Len(images) < MaxImages
  /\ layers' = run_commands(i, commands)
  /\ images' = Append(images, DebianSlim(Len(layers')))
  /\ BuilderFrame

\* line 222: debian_slim = DebianSlim(), before or after a successful
\* debian_slim.start (layer, mount and image realised in that order)
InitBuild ==
  /\ \E started \in BOOLEAN :
       /\ layers = <<[Layer("python-" \o python_version \o "-slim-buster-base", <<>>, <<>>)
                        EXCEPT !.layer_id = IF started THEN 1 ELSE None]>>
       /\ images = <<[DebianSlim(1) EXCEPT !.image_id = IF started THEN 3 ELSE None]>>
       /\ mount_id = [m \in Mounts |-> IF started THEN 2 ELSE None]
       /\ next_id = IF started THEN 4 ELSE 1
  /\ fs = (1 :> <<1>>) @@ (OtherFile :> <<1>>)
  /\ hashes = [m \in Mounts |-> <<>>]
  /\ remote_to_local_filename = [m \in Mounts |-> <<>>]
  /\ stack = [t \in Tasks |-> <<>>]
  /\ running = NoTask
  /\ result = [t \in Tasks |-> NoResult]
  /\ ncalls = [t \in Tasks |-> 0]
  /\ mc = [t \in Tasks |-> NoStreams]
  /\ sent = <<>>
  /\ jc = [t \in Tasks |-> NoJoin]

\* images are composed with the builders
NextBuild ==
  \/ NewDebianSlim
  \/ \E i \in DOMAIN images, p \in PackageLists : AddPythonPackages(i, p)
  \/ \E i \in DOMAIN images, c \in CommandLists : RunCommands(i, c)

SpecBuild == InitBuild /\ [][NextBuild]_vars

\* ------------------------------------------------------------- Image.start alone
\* a caller awaits image.start(client), one call after another
StartImage(t, i) ==
  /\ ncalls[t] < MaxCalls
  /\ BeginImageStart(t, i)

\* the Mount instances of the image below
ImageMounts == {1, 2}

\* Image(layer, mounts=[m1, m2]): a layer built on a base layer and two Mount
\* instances over a directory with one .py file; nothing realised yet
InitImage ==
  /\ layers = <<NewLayer(<<>>), NewLayer(<<1>>)>>
  /\ images = <<Image(2, <<1, 2>>)>>
  /\ fs = (1 :> <<1>>) @@ (OtherFile :> <<1>>)
  /\ mount_id = [m \in ImageMounts |-> None]
  /\ hashes = [m \in ImageMounts |-> <<>>]
  /\ remote_to_local_filename = [m \in ImageMounts |-> <<>>]
  /\ stack = [t \in Tasks |-> <<>>]
  /\ running = NoTask
  /\ result = [t \in Tasks |-> NoResult]
  /\ ncalls = [t \in Tasks |-> 0]
  /\ mc = [t \in Tasks |-> NoStreams]
  /\ sent = <<>>
  /\ next_id = 1
  /\ jc = [t \in Tasks |-> NoJoin]

\* calls to start on one Image, one after another
NextImage ==
  \/ \E i \in DOMAIN images : StartImage(1, i)
  \/ ImageSteps(1)
  \/ LayerSteps(1)
  \/ MountSteps(1)

SpecImage == InitImage /\ [][NextImage]_vars

\* ------------------------------------------------------------- builders: properties
\* C13: no Mount instance appears in the mounts of two different Image
\* instances.
C13_MountInOneImage ==
  \A i, j \in DOMAIN images :
    i # j => Range(images[i].mounts) \cap Range(images[j].mounts) = {}

\* C17: a builder call adds one image and its new layers after the existing
\* ones and changes no existing image or layer; the new image is unrealised
\* and owns the newest layer, which is unrealised; when that layer has base
\* layers its 'base' is the layer of an existing image and its other bases
\* are new layers.
C17_BuildersDoNotMutate ==
  [][images' # images \/ layers' # layers =>
       /\ Len(images') = Len(images) + 1
       /\ SubSeq(images', 1, Len(images)) = images
       /\ Len(layers') > Len(layers)
       /\ SubSeq(layers', 1, Len(layers)) = layers
       /\ LET image == images'[Len(images')]
              layer == layers'[image.layer]
          IN  /\ image.image_id = None
              /\ image.layer = Len(layers')
              /\ \A l \in (Len(layers) + 1)..Len(layers') : layers'[l].layer_id = None
              /\ layer.base_layers # <<>> =>
                   /\ layer.base_layers[1][1] = "base"
                   /\ \E i \in DOMAIN images :
                        layer.base_layers[1][2] = images[i].layer
                   /\ \A k \in 2..Len(layer.base_layers) :
                        layer.base_layers[k][2] > Len(layers)]_vars

\* run_commands and add_python_packages were called on the realised
\* debian_slim, which is still realised with its layer as it was
C17_Witness ==
  /\ Len(images) = 3
  /\ images[1].image_id = 3
  /\ layers[1].layer_id = 1
  /\ layers[images[2].layer].base_layers = <<<<"base", 1>>>>
  /\ Len(layers[images[3].layer].base_layers) = 2
  /\ layers[images[3].layer].base_layers[1] = <<"base", 1>>

\* ------------------------------------------------------------- Image.start: properties
\* the entries of `sent` before position k that answered rpc for obj with id
AnsweredBefore(k, rpc, obj) ==
  {j \in 1..(k - 1) : sent[j].rpc = rpc /\ sent[j].obj = obj /\ sent[j].status = "ok"}
FailedRequests == {k \in 1..Len(sent) : sent[k].status = "failed"}

\* C14: with start calls made one after another an Image has at most one
\* ImageCreate besides failed attempts; each ImageCreate is sent after the
\* LayerCreate of its layer and the MountDone of each of its mounts were
\* answered and carries that layer id and those mount ids in the order of
\* mounts; the answered ImageCreate is the last RPC ever sent, and a call
\* that returns gives the id it assigned.
C14_ImageCreateAfterParts ==
  /\ \A i \in DOMAIN images : Cardinality(LiveRequests("ImageCreate", i)) <= 1
  /\ \A k \in 1..Len(sent) :
       sent[k].rpc = "ImageCreate" =>
         LET i == sent[k].obj
             req == sent[k].req
         IN  /\ \E j \in AnsweredBefore(k, "LayerCreate", images[i].layer) :
                  sent[j].resp = req.layer_id
             /\ req.layer_id = layers[images[i].layer].layer_id
             /\ Len(req.mount_ids) = Len(images[i].mounts)
             /\ \A n \in 1..Len(images[i].mounts) :
                  /\ req.mount_ids[n] = mount_id[images[i].mounts[n]]
                  /\ \E j \in AnsweredBefore(k, "MountDone", images[i].mounts[n]) :
                       sent[j].req.mount_id = req.mount_ids[n]
             /\ sent[k].status = "ok" =>
                  /\ k = Len(sent)
                  /\ images[i].image_id = sent[k].resp
  /\ \A t \in Tasks :
       (result[t].kind = "ok" /\ result[t].call = "image") =>
         /\ result[t].val = images[result[t].obj].image_id
         /\ Cardinality(AnsweredRequests("ImageCreate", result[t].obj)) = 1

\* a first call realised layer, both mounts and the image without any
\* failure, and a second call has returned the cached id
C14_Witness ==
  /\ ncalls[1] = 2
  /\ stack[1] = <<>>
  /\ result[1].kind = "ok"
  /\ FailedRequests = {}
  /\ CountRpc("ImageCreate") = 1
  /\ sent[Len(sent)].rpc = "ImageCreate"
  /\ Len(sent[Len(sent)].req.mount_ids) = 2
  /\ sent[Len(sent)].req.mount_ids[1] # sent[Len(sent)].req.mount_ids[2]

\* C19: a failing RPC ends the call with its error, with no request sent in
\* its place and no identifier changed; image_id is set only by an answered
\* ImageCreate; a realised layer or mount keeps the id of its one answered
\* LayerCreate / MountDone and no LayerCreate or MountCreate is sent for it
\* again.
C19_FailedStartKeepsRealized ==
  /\ [](/\ \A i \in DOMAIN images :
            /\ images[i].image_id = None <=> AnsweredRequests("ImageCreate", i) = {}
            /\ \A k \in AnsweredRequests("ImageCreate", i) :
                 images[i].image_id = sent[k].resp
        /\ \A l \in DOMAIN layers :
            \A k \in AnsweredRequests("LayerCreate", l) :
              /\ layers[l].layer_id = sent[k].resp
              /\ Requests("LayerCreate", l) \cap (k + 1)..Len(sent) = {}
        /\ \A m \in DOMAIN mount_id :
            \A k \in AnsweredRequests("MountDone", m) :
              /\ mount_id[m] = sent[k].req.mount_id
              /\ Requests("MountCreate", m) \cap (k + 1)..Len(sent) = {})
  /\ [][\A k \in 1..Len(sent) :
          (sent[k].status = "pending" /\ sent'[k].status = "failed") =>
            /\ Len(sent') = Len(sent)
            /\ stack'[sent[k].task] = <<>>
            /\ result'[sent[k].task].kind = "err"
            /\ layers' = layers
            /\ images' = images
            /\ mount_id' = mount_id]_vars

\* the first call failed in the MountCreate of the second mount, after the
\* layers and the first mount were realised; the second call succeeded
C19_Witness ==
  /\ ncalls[1] = 2
  /\ stack[1] = <<>>
  /\ result[1].kind = "ok"
  /\ Cardinality(FailedRequests) = 1
  /\ \A k \in FailedRequests : sent[k].rpc = "MountCreate" /\ sent[k].obj = 2
  /\ CountRpc("LayerCreate") = 2
  /\ CountRpc("MountCreate") = 3
  /\ CountRpc("ImageCreate") = 1

\* C15: every LayerCreate request was sent after the LayerCreate of each base
\* layer of its node had been answered, and carries one (name, id) pair per
\* entry of base_layers, in order, the id being the one that answer gave and
\* the base layer caches, with the node's build commands as they are.
C15_BaseLayersFirst ==
  \A k \in 1..Len(sent) :
    sent[k].rpc = "LayerCreate" =>
      LET l == sent[k].obj
          req == sent[k].req
      IN  /\ Len(req.base_layers) = Len(layers[l].base_layers)
          /\ \A n \in 1..Len(layers[l].base_layers) :
               LET base == layers[l].base_layers[n][2] IN
                 /\ req.base_layers[n].docker_tag = layers[l].base_layers[n][1]
                 /\ req.base_layers[n].layer_id = layers[base].layer_id
                 /\ \E j \in AnsweredBefore(k, "LayerCreate", base) :
                      sent[j].resp = req.base_layers[n].layer_id
          /\ req.dockerfile_commands = layers[l].dockerfile_commands
          /\ req.tag = layers[l].tag

\* a node with two different base layers, one of them built on the other,
\* was realised by one call: three requests, the last one naming both ids
C15_Witness ==
  /\ Len(layers) >= 3
  /\ layers[2].base_layers = <<<<"base", 1>>>>
  /\ layers[3].base_layers = <<<<"base", 2>>, <<"builder", 1>>>>
  /\ ncalls[1] = 1
  /\ result[1].kind = "ok"
  /\ Len(sent) = 3
  /\ sent[3].obj = 3
  /\ sent[3].req.base_layers[1].layer_id = layers[2].layer_id
  /\ sent[3].req.base_layers[2].layer_id = layers[1].layer_id
  /\ layers[1].layer_id # layers[2].layer_id

AllPending(t) == \A k \in 1..Len(jc[t].resps) : jc[t].resps[k].status = "UNSPECIFIED"
StatusAnswered(t) == \E k \in 1..Len(jc[t].resps) : jc[t].resps[k].status # "UNSPECIFIED"

\* C16: a join whose responses all came without status has not ended (unless
\* the transport gave up); whenever the loop head is reached the next request
\* is eventually sent, however many responses came before; and once a
\* response with a status has arrived the join eventually ends.
C16_JoinPollsUntilStatus ==
  /\ [](\A t \in Tasks :
          (jc[t].resps # <<>> /\ AllPending(t)) =>
            (Polling(stack[t]) \/ result[t].err = "transport"))
  /\ \A t \in Tasks : InFrame(t, "join", "check") ~> InFrame(t, "join", "poll")
  /\ \A t \in Tasks : StatusAnswered(t) ~> JoinEnded(stack[t], result[t])

\* as many responses without status as the remote side gives, and one more
\* request is out
C16_Witness ==
  /\ Len(jc[1].resps) = MaxPolls
  /\ AllPending(1)
  /\ InFrame(1, "join", "poll")
  /\ Len(jc[1].reqs) = MaxPolls + 1
  /\ jc[1].nerr = 0

\* the RPCs of `sent` that carry the mount id of task t's current Mount.start
OfCurrentMount(t, rpc) ==
  {k \in 1..Len(sent) :
     /\ sent[k].rpc = rpc
     /\ sent[k].task = t
     /\ IF rpc = "MountCreate" THEN sent[k].resp = mc[t].mount_id
        ELSE sent[k].req.mount_id = mc[t].mount_id}

\* C18: in a Mount.start, each upload message is for a file whose own
\* registration request was sent and whose exists = false response was
\* received; every register and upload message carries the id of the
\* answered MountCreate of the call, which comes before both streams; and
\* when MountDone is sent every file has been registered, every response
\* handled and every missing file's upload message sent.
C18_PerFileOrdering ==
  \A t \in Tasks :
    mc[t].mount_id # None =>
      /\ \A j \in 1..Len(mc[t].upReq) :
           \E k \in 1..Len(mc[t].regResp) :
             /\ k <= mc[t].n_files
             /\ mc[t].regReq[k].file = mc[t].upReq[j].file
             /\ mc[t].regResp[k].filename = mc[t].regReq[k].filename
             /\ ~mc[t].regResp[k].exists
      /\ \A j \in 1..Len(mc[t].regReq) : mc[t].regReq[j].mount_id = mc[t].mount_id
      /\ \A j \in 1..Len(mc[t].upReq) : mc[t].upReq[j].mount_id = mc[t].mount_id
      /\ Cardinality(OfCurrentMount(t, "MountCreate")) = 1
      /\ \A c \in OfCurrentMount(t, "MountCreate") :
           /\ sent[c].status = "ok"
           /\ \A k \in OfCurrentMount(t, "MountRegisterFile")
                       \cup OfCurrentMount(t, "MountUploadFile")
                       \cup OfCurrentMount(t, "MountDone") : c < k
      /\ \A d \in OfCurrentMount(t, "MountDone") :
           /\ mc[t].pending = {}
           /\ mc[t].n_files = Len(mc[t].regReq)
           /\ Len(mc[t].regResp) = Len(mc[t].regReq)
           /\ UploadedFiles(mc[t]) = MissingObserved(mc[t])
           /\ \A u \in OfCurrentMount(t, "MountUploadFile") : u < d /\ sent[u].status = "ok"

\* MountDone is out after two files were registered and the second uploaded
C18_Witness ==
  /\ InFrame(1, "mount", "done")
  /\ Len(mc[1].regReq) = 2
  /\ mc[1].regResp[1].exists
  /\ ~mc[1].regResp[2].exists
  /\ Len(mc[1].upReq) = 1
  /\ OfCurrentMount(1, "MountDone") # {}

\* C20: every ImageJoin request a join has sent carries a set image_id.
C20_JoinCarriesImageId ==
  \A t \in Tasks : \A k \in 1..Len(jc[t].reqs) :
    jc[t].reqs[k].image_id # None

====
